---- MODULE Spec2Model ----
(***************************************************************************)
(* Model of src/Real.h (Elements::FloatingPoint, Elements::isEqual): the   *)
(* ULP comparison of two IEEE floating-point numbers.                      *)
(*                                                                         *)
(* A floating-point object is represented by its object representation,    *)
(* the natural number whose binary digits are the bits of its storage      *)
(* (sign bit, exponent field, fraction field).  All unsigned arithmetic is *)
(* done modulo 2^s_bitcount, as arithmetic on the type Bits is.            *)
(***************************************************************************)
EXTENDS Integers, FiniteSets

VARIABLES
    pc,                \* "template", "ill_formed", "instantiated", "constructed",
                       \* "returned", "returned_swapped"
    size,              \* sizeof(RawType) of the instantiation
    Bits,              \* the type TypeWithSize<sizeof(RawType)>::UInt names
    m_u,               \* FloatingPoint::m_u, the storage of the union
    left, right,       \* the objects isEqual's arguments refer to
    max_ulps,          \* template argument of isEqual
    l_bits, r_bits,    \* locals of isEqual
    is_equal,          \* value returned by isEqual(left, right)
    is_equal_swapped   \* value returned by isEqual(right, left)

vars == <<pc, size, Bits, m_u, left, right, max_ulps, l_bits, r_bits,
          is_equal, is_equal_swapped>>

(***************************************************************************)
(* Bounds.  RawType is an IEEE-style binary format; the code is generic in *)
(* it (double: 64 bits, 53 digits).  The model instantiates the same       *)
(* layout formulas at a width small enough to enumerate every bit pattern. *)
(***************************************************************************)
\* 8 * sizeof(RawType): number of bits of the storage of RawType
RawTypeBits == 5
\* std::numeric_limits<RawType>::digits: mantissa digits, hidden bit included
RawTypeDigits == 3
\* largest value given to the template parameter max_ulps
MaxUlpsArg == 11
\* largest sizeof(RawType) the template is instantiated with
MaxSizeof == 16
\* the former content of a storage slot is one of the MaxStaleWord + 1 largest words
MaxStaleWord == 0

\* Real.h:88
DBL_DEFAULT_MAX_ULPS == 10

\* sizeof(double), and std::numeric_limits<double>::digits of IEEE binary64
SizeofDouble == 8

DoubleDigits == 53

\* Real.h:111-119  defaultMaxUlps<RawType>() and its specialisation for double
defaultMaxUlps == DBL_DEFAULT_MAX_ULPS

(***************************************************************************)
(* Real.h:95-109  TypeWithSize<size>::UInt.  The primary template gives    *)
(* void; the only specialisation is the one for size 8.                    *)
(***************************************************************************)
TypeWithSize_UInt(sz) ==
    IF sz = 8 THEN "unsigned long long" ELSE "void"

(***************************************************************************)
(* Real.h:160-166  bit counts of FloatingPoint<RawType>                    *)
(***************************************************************************)
\* Real.h:160  8 * sizeof(RawType)
bitcount(sz) == 8 * sz

\* Real.h:163  numeric_limits<RawType>::digits - 1
fraction_bitcount(digits) == digits - 1

\* Real.h:166  s_bitcount - 1 - s_fraction_bitcount
exponent_bitcount(bits, digits) == bits - 1 - fraction_bitcount(digits)

\* the three counts for the RawType of the model
s_bitcount == RawTypeBits

s_fraction_bitcount == fraction_bitcount(RawTypeDigits)

s_exponent_bitcount == exponent_bitcount(s_bitcount, RawTypeDigits)

(***************************************************************************)
(* The type Bits: unsigned integers of s_bitcount bits, and the operators  *)
(* of C++ on them (Real.h:155).                                            *)
(***************************************************************************)
Modulus == 2 ^ s_bitcount

BitPatterns == 0 .. (Modulus - 1)

RECURSIVE NotBits(_, _)
NotBits(x, n) ==
    IF n = 0 THEN 0 ELSE (1 - (x % 2)) + 2 * NotBits(x \div 2, n - 1)

\* ~x, tabulated over the values of Bits
BitNotTable == [x \in BitPatterns |-> NotBits(x, s_bitcount)]

BitNot(x) == BitNotTable[x]

RECURSIVE AndBits(_, _, _)
AndBits(x, y, n) ==
    IF n = 0 THEN 0
    ELSE ((x % 2) * (y % 2)) + 2 * AndBits(x \div 2, y \div 2, n - 1)

\* x & y, tabulated over the values of Bits
BitAndTable == [x \in BitPatterns |-> [y \in BitPatterns |-> AndBits(x, y, s_bitcount)]]

BitAnd(x, y) == BitAndTable[x][y]

RECURSIVE OrBits(_, _, _)
OrBits(x, y, n) ==
    IF n = 0 THEN 0
    ELSE (IF (x % 2) + (y % 2) > 0 THEN 1 ELSE 0)
         + 2 * OrBits(x \div 2, y \div 2, n - 1)

\* x | y, tabulated over the values of Bits
BitOrTable == [x \in BitPatterns |-> [y \in BitPatterns |-> OrBits(x, y, s_bitcount)]]

BitOr(x, y) == BitOrTable[x][y]

\* x << k
ShiftLeft(x, k) == (x * (2 ^ k)) % Modulus

\* x >> k
ShiftRight(x, k) == x \div (2 ^ k)

\* x + y on Bits (wraps)
AddBits(x, y) == (x + y) % Modulus

\* x - y on Bits (wraps)
SubBits(x, y) == ((x - y) + Modulus) % Modulus

(***************************************************************************)
(* Real.h:168-175  the masks                                               *)
(***************************************************************************)
s_sign_bitmask == ShiftLeft(1, s_bitcount - 1)

s_fraction_bitmask_NoSignShift == ShiftRight(BitNot(0), s_exponent_bitcount)

s_fraction_bitmask == ShiftRight(BitNot(0), s_exponent_bitcount + 1)

s_exponent_bitmask == BitNot(BitOr(s_sign_bitmask, s_fraction_bitmask))

\* Real.h:202-204
exponentBits(bits) == BitAnd(s_exponent_bitmask, bits)

\* Real.h:207-209
fractionBits(bits) == BitAnd(s_fraction_bitmask, bits)

(***************************************************************************)
(* Real.h:226-234  signAndMagnitudeToBiased                                *)
(***************************************************************************)
signAndMagnitudeToBiased_NoPlusOne(sam) ==
    IF BitAnd(s_sign_bitmask, sam) # 0
    THEN BitNot(sam)
    ELSE BitOr(s_sign_bitmask, sam)

signAndMagnitudeToBiased(sam) ==
    IF BitAnd(s_sign_bitmask, sam) # 0
    THEN AddBits(BitNot(sam), 1)
    ELSE BitOr(s_sign_bitmask, sam)

(***************************************************************************)
(* Real.h:238-242  distanceBetweenSignAndMagnitudeNumbers                  *)
(***************************************************************************)
distanceBetweenSignAndMagnitudeNumbers_NoOrder(sam1, sam2) ==
    LET biased1 == signAndMagnitudeToBiased(sam1)
        biased2 == signAndMagnitudeToBiased(sam2)
    IN  SubBits(biased1, biased2)

distanceBetweenSignAndMagnitudeNumbers(sam1, sam2) ==
    LET biased1 == signAndMagnitudeToBiased(sam1)
        biased2 == signAndMagnitudeToBiased(sam2)
    IN  IF biased1 >= biased2
        THEN SubBits(biased1, biased2)
        ELSE SubBits(biased2, biased1)

(***************************************************************************)
(* Real.h:260-261  *reinterpret_cast<const Bits*>(&x): the object x, of    *)
(* type RawType, is read through an lvalue of type Bits.  That access has  *)
(* undefined behaviour ([basic.lval]: Bits is neither the dynamic type of  *)
(* the object, nor its signed/unsigned variant, nor a character type).     *)
(* A build either performs the load where it is written, and it yields the *)
(* object representation of x, or, type-based alias analysis having shown  *)
(* that a Bits load cannot depend on a RawType store, moves the load over  *)
(* the store that initialises x, and it yields the former content of the   *)
(* storage.  The operator gives the set of words the load can yield.       *)
(***************************************************************************)
StaleWords == (Modulus - 1 - MaxStaleWord) .. (Modulus - 1)

reinterpret_cast_Bits(x) == {x} \cup StaleWords

(***************************************************************************)
(* Real.h:254-265  isEqual<RawType, max_ulps>: the value returned for the  *)
(* words lb, rb the two loads yielded.                                     *)
(***************************************************************************)
isEqual_StrictLess(lb, rb, ulps) ==
    distanceBetweenSignAndMagnitudeNumbers(lb, rb) < ulps

isEqual_Result(lb, rb, ulps) ==
    distanceBetweenSignAndMagnitudeNumbers(lb, rb) <= ulps

Sizes == 1 .. MaxSizeof

UlpsArgs == 0 .. MaxUlpsArg

Init ==
    /\ pc = "template"
    /\ size = 0
    /\ Bits = "none"
    /\ m_u = 0
    /\ left = 0
    /\ right = 0
    /\ max_ulps = defaultMaxUlps
    /\ l_bits = 0
    /\ r_bits = 0
    /\ is_equal = FALSE
    /\ is_equal_swapped = FALSE

(***************************************************************************)
(* Instantiation of FloatingPoint<RawType> / isEqual<RawType> for a type   *)
(* of sz bytes (Real.h:155, 259).  With Bits = void the declarations of    *)
(* the masks (Real.h:169-175) and of l_bits, r_bits are ill-formed.        *)
(***************************************************************************)
Instantiate(sz) ==
    /\ pc = "template"
    /\ size' = sz
    /\ Bits' = TypeWithSize_UInt(sz)
    /\ pc' = IF TypeWithSize_UInt(sz) = "void" THEN "ill_formed" ELSE "instantiated"
    /\ UNCHANGED <<m_u, left, right, max_ulps, l_bits, r_bits, is_equal,
                   is_equal_swapped>>

(***************************************************************************)
(* Real.h:197-199  FloatingPoint(const RawType& x): m_u.m_value = x.       *)
(* m_u holds the object representation of x.  exponentBits() and           *)
(* fractionBits() read it through the other member of the union, m_bits,   *)
(* which the compilers the code is built with define to yield the stored   *)
(* bits.                                                                   *)
(***************************************************************************)
FloatingPointCtor(x) ==
    /\ pc = "instantiated"
    /\ m_u' = x
    /\ pc' = "constructed"
    /\ UNCHANGED <<size, Bits, left, right, max_ulps, l_bits, r_bits, is_equal,
                   is_equal_swapped>>

(***************************************************************************)
(* Real.h:254-265  a call isEqual<RawType, n>(l, r)                        *)
(***************************************************************************)
isEqual(l, r, n) ==
    /\ pc = "instantiated"
    /\ left' = l
    /\ right' = r
    /\ max_ulps' = n
    /\ \E lb \in reinterpret_cast_Bits(l), rb \in reinterpret_cast_Bits(r) :
          /\ l_bits' = lb
          /\ r_bits' = rb
          /\ is_equal' = isEqual_Result(lb, rb, n)
    /\ pc' = "returned"
    /\ UNCHANGED <<size, Bits, m_u, is_equal_swapped>>

(***************************************************************************)
(* The same call with the arguments exchanged, isEqual<RawType, n>(r, l),  *)
(* made after the first one returned.  Only its return value is kept: the  *)
(* locals of both calls are out of scope.                                  *)
(***************************************************************************)
isEqualSwapped ==
    /\ pc = "returned"
    /\ is_equal_swapped' \in
          { isEqual_Result(lb, rb, max_ulps) :
                lb \in reinterpret_cast_Bits(right), rb \in reinterpret_cast_Bits(left) }
    /\ l_bits' = 0
    /\ r_bits' = 0
    /\ pc' = "returned_swapped"
    /\ UNCHANGED <<size, Bits, m_u, left, right, max_ulps, is_equal>>

\* the calls a program makes once the templates are instantiated
Construct ==
    /\ pc = "instantiated"
    /\ \E x \in BitPatterns : FloatingPointCtor(x)

Compare ==
    /\ pc = "instantiated"
    /\ \E l \in BitPatterns, r \in BitPatterns, n \in UlpsArgs : isEqual(l, r, n)

Next ==
    \/ \E sz \in Sizes : Instantiate(sz)
    \/ Construct
    \/ Compare
    \/ isEqualSwapped

Spec == Init /\ [][Next]_vars

(***************************************************************************)
(* IEEE-754 reading of a bit pattern, by arithmetic on the pattern (no use *)
(* of the masks of the code).                                              *)
(***************************************************************************)
SignBitValue == 2 ^ (RawTypeBits - 1)

FractionRange == 2 ^ (RawTypeDigits - 1)

ExponentRange == 2 ^ (RawTypeBits - RawTypeDigits)

SignOf(p) == p \div SignBitValue

MagnitudeOf(p) == p % SignBitValue

FractionOf(p) == p % FractionRange

ExponentOf(p) == (p \div FractionRange) % ExponentRange

IsFinite(p) == ExponentOf(p) # ExponentRange - 1

\* the value of a finite pattern, in units of the smallest subnormal
ScaledValue(p) ==
    LET m == IF ExponentOf(p) = 0
             THEN FractionOf(p)
             ELSE (FractionRange + FractionOf(p)) * (2 ^ (ExponentOf(p) - 1))
    IN  IF SignOf(p) = 1 THEN 0 - m ELSE m

\* -0.0: the sign bit alone (+0.0 is the pattern 0)
NegZero == SignBitValue

PosInfinity == (ExponentRange - 1) * FractionRange

NegInfinity == SignBitValue + PosInfinity

\* 1.0: biased exponent equal to the bias, fraction 0
One == ((ExponentRange \div 2) - 1) * FractionRange

AbsDiff(a, b) == IF a >= b THEN a - b ELSE b - a

\* both loads of the call yielded the stored words
LoadsFaithful == l_bits = left /\ r_bits = right

(***************************************************************************)
(* C1: signAndMagnitudeToBiased preserves the numeric order: for the two   *)
(* patterns a call compares, both finite, biased(a) >= biased(b) exactly   *)
(* when value(a) >= value(b), +0 and -0 being the same value.              *)
(***************************************************************************)
C1_BiasedOrderIsNumericOrder ==
    (pc = "returned" /\ IsFinite(l_bits) /\ IsFinite(r_bits)) =>
        ((signAndMagnitudeToBiased(l_bits) >= signAndMagnitudeToBiased(r_bits))
            <=> (ScaledValue(l_bits) >= ScaledValue(r_bits)))

\* a call that compared -0 with +0: equal values, different patterns
C1_Witness ==
    /\ pc = "returned"
    /\ l_bits = NegZero
    /\ r_bits = 0
    /\ signAndMagnitudeToBiased(l_bits) >= signAndMagnitudeToBiased(r_bits)

C2_OnLoadedWords ==
    (pc = "returned" /\ SignOf(l_bits) = SignOf(r_bits)) =>
        (is_equal <=> (AbsDiff(l_bits, r_bits) <= max_ulps))

C3_OnLoadedWords ==
    (/\ pc = "returned"
     /\ \/ (l_bits = 0 /\ r_bits = NegZero)
        \/ (l_bits = NegZero /\ r_bits = 0)) => is_equal

(***************************************************************************)
(* C4, as claimed: the comparison of a finite pattern with an infinity     *)
(* is false for every tolerance up to the default of 10.                   *)
(***************************************************************************)
C4_FiniteNeverEqualsInfinity ==
    (/\ pc = "returned"
     /\ IsFinite(l_bits)
     /\ r_bits \in {PosInfinity, NegInfinity}
     /\ max_ulps <= DBL_DEFAULT_MAX_ULPS) => ~is_equal

(***************************************************************************)
(* C4, amended: the comparison of a finite pattern x with an infinity is   *)
(* true exactly when x has the sign of the infinity and lies at most       *)
(* max_ulps patterns below it in magnitude; so it is false at tolerance 0  *)
(* and, for every tolerance up to 10, false for the infinity of the other  *)
(* sign, but true for the largest finite value at every tolerance >= 1.    *)
(***************************************************************************)
C4_FiniteEqualsInfinityWithinUlps ==
    (/\ pc = "returned"
     /\ IsFinite(l_bits)
     /\ r_bits \in {PosInfinity, NegInfinity}
     /\ max_ulps <= DBL_DEFAULT_MAX_ULPS) =>
        /\ is_equal <=> (/\ SignOf(l_bits) = SignOf(r_bits)
                         /\ PosInfinity - MagnitudeOf(l_bits) <= max_ulps)
        /\ (max_ulps = 0 \/ SignOf(l_bits) # SignOf(r_bits)) => ~is_equal
        /\ (l_bits = r_bits - 1 /\ max_ulps >= 1) => is_equal

\* the largest finite value compared with +infinity at tolerance 1
C4_Witness ==
    /\ pc = "returned"
    /\ l_bits = PosInfinity - 1
    /\ r_bits = PosInfinity
    /\ max_ulps = 1
    /\ is_equal

(***************************************************************************)
(* C5: the mapping from byte width to unsigned integer type gives a usable *)
(* type for size 4 and for size 8, and no usable type (a rejection when    *)
(* the template is instantiated) for every other size.                     *)
(***************************************************************************)
C5_Widths4And8Supported ==
    (pc # "template") =>
        /\ (size \in {4, 8}) <=> (Bits # "void")
        /\ (size \in {4, 8}) <=> (pc # "ill_formed")

(***************************************************************************)
(* C6: the arithmetic of a comparison never wraps: negating a pattern with *)
(* the sign bit set does not overflow the width, the subtraction does not  *)
(* underflow, the distance is the absolute difference of the two biased    *)
(* values as integers, and the call returns the boolean distance <=        *)
(* max_ulps, whatever the two patterns are.                                *)
(***************************************************************************)
C6_NoWrapAndTotal ==
    (pc = "returned") =>
        LET biased1 == signAndMagnitudeToBiased(l_bits)
            biased2 == signAndMagnitudeToBiased(r_bits)
            distance == distanceBetweenSignAndMagnitudeNumbers(l_bits, r_bits)
        IN  /\ (SignOf(l_bits) = 1) => (BitNot(l_bits) + 1 < Modulus)
            /\ (SignOf(r_bits) = 1) => (BitNot(r_bits) + 1 < Modulus)
            /\ distance = AbsDiff(biased1, biased2)
            /\ is_equal \in BOOLEAN
            /\ is_equal <=> (AbsDiff(biased1, biased2) <= max_ulps)

\* two NaN patterns, the first negative: the negation and the else branch act
C6_Witness ==
    /\ pc = "returned"
    /\ l_bits = Modulus - 1
    /\ r_bits = SignBitValue - 1
    /\ signAndMagnitudeToBiased(l_bits) < signAndMagnitudeToBiased(r_bits)
    /\ ~is_equal

C7_OnLoadedWords ==
    (pc = "returned") =>
        (isEqual_Result(l_bits, r_bits, max_ulps)
            = isEqual_Result(r_bits, l_bits, max_ulps))

C8_OnLoadedWords ==
    (pc = "returned" /\ l_bits = r_bits) => is_equal

(***************************************************************************)
(* C9: the masks partition the word: the sign mask is the bit at position  *)
(* bitcount - 1, the fraction mask the low fraction_bitcount bits, the     *)
(* exponent mask the bits between; they are pairwise disjoint and cover    *)
(* the word, so they split every constructed number into its three fields; *)
(* the 64-bit layout has 52 fraction and 11 exponent bits.                 *)
(***************************************************************************)
C9_MasksPartitionWord ==
    /\ s_sign_bitmask = SignBitValue
    /\ s_fraction_bitmask = FractionRange - 1
    /\ s_exponent_bitmask = SignBitValue - FractionRange
    /\ BitAnd(s_sign_bitmask, s_fraction_bitmask) = 0
    /\ BitAnd(s_sign_bitmask, s_exponent_bitmask) = 0
    /\ BitAnd(s_fraction_bitmask, s_exponent_bitmask) = 0
    /\ s_sign_bitmask + s_exponent_bitmask + s_fraction_bitmask = Modulus - 1
    /\ s_exponent_bitcount + s_fraction_bitcount + 1 = s_bitcount
    /\ bitcount(SizeofDouble) = 64
    /\ fraction_bitcount(DoubleDigits) = 52
    /\ exponent_bitcount(bitcount(SizeofDouble), DoubleDigits) = 11
    /\ (pc = "constructed") =>
          /\ fractionBits(m_u) = FractionOf(m_u)
          /\ exponentBits(m_u) = ExponentOf(m_u) * FractionRange
          /\ BitAnd(s_sign_bitmask, m_u) = SignOf(m_u) * SignBitValue
          /\ BitAnd(s_sign_bitmask, m_u) + exponentBits(m_u) + fractionBits(m_u) = m_u

\* a constructed number with all three fields non-zero
C9_Witness ==
    /\ pc = "constructed"
    /\ BitAnd(s_sign_bitmask, m_u) # 0
    /\ exponentBits(m_u) # 0
    /\ fractionBits(m_u) # 0

C10_OnLoadedWords ==
    /\ distanceBetweenSignAndMagnitudeNumbers(1, SignBitValue + 1) = 2
    /\ (pc = "returned" /\ SignOf(l_bits) = 0 /\ SignOf(r_bits) = 1) =>
          /\ distanceBetweenSignAndMagnitudeNumbers(l_bits, r_bits)
                = MagnitudeOf(l_bits) + MagnitudeOf(r_bits)
          /\ is_equal <=> (MagnitudeOf(l_bits) + MagnitudeOf(r_bits) <= max_ulps)

====
